---------------------------- MODULE Spec2Model ----------------------------
(***************************************************************************)
(* ChaiGame (src/main.cpp): a Room of caching Layers rendered with a       *)
(* parallax offset, and the SDL main loop that polls one event, updates    *)
(* the viewpoint and renders once per iteration.                           *)
(*                                                                         *)
(* Two specifications share the Room/Layer operators:                      *)
(*   SpecAPI  the Room and Layer classes under any sequence of calls of    *)
(*            their public methods;                                        *)
(*   Spec     main(): the scene it builds, the SDL event queue filled by   *)
(*            the user and by the 100 ms timer, and the loop, one action   *)
(*            per statement of its body.                                   *)
(*                                                                         *)
(* A double is modelled as a binary floating-point number with MantBits    *)
(* bits of mantissa, round to nearest, ties to even, and an unbounded      *)
(* exponent: the pair <<n, d>> is the number n/d in lowest terms (d a      *)
(* power of two), <<1,0>> is +inf, <<-1,0>> is -inf and <<0,0>> is NaN.    *)
(* The sign of zero is not kept.                                           *)
(***************************************************************************)
EXTENDS Integers, Sequences, FiniteSets

\* bits of mantissa of the modelled double
MantBits == 8

RECURSIVE Pow2(_)
Pow2(k) == IF k = 0 THEN 1 ELSE 2 * Pow2(k - 1)

TwoP == Pow2(MantBits)
HalfP == Pow2(MantBits - 1)

Abs(i) == IF i < 0 THEN -i ELSE i
Sgn(i) == IF i < 0 THEN -1 ELSE IF i > 0 THEN 1 ELSE 0

Inf == <<1, 0>>
NInf == <<-1, 0>>
NaN == <<0, 0>>
IsNaN(x) == x = NaN
IsInf(x) == x[2] = 0 /\ x[1] # 0
IsFin(x) == x[2] # 0

\* n/d in lowest terms, d a power of two
RECURSIVE Norm(_, _)
Norm(n, d) ==
  IF n = 0 THEN <<0, 1>>
  ELSE IF d > 1 /\ n % 2 = 0 THEN Norm(n \div 2, d \div 2)
  ELSE <<n, d>>

\* a/b rounded to the nearest integer, ties to even (a >= 0, b > 0)
RoundDiv(a, b) ==
  LET m == a \div b
      r == a % b
  IN  IF 2 * r > b \/ (2 * r = b /\ m % 2 = 1) THEN m + 1 ELSE m

RECURSIVE ScaleDown(_, _, _)
ScaleDown(a, d, t) == IF a < TwoP * d * t THEN t ELSE ScaleDown(a, d, 2 * t)

RECURSIVE ScaleUp(_, _, _)
ScaleUp(a, d, t) == IF a * t >= HalfP * d THEN t ELSE ScaleUp(a, d, 2 * t)

\* the rational n/d (d > 0) rounded to the nearest double
RN(n, d) ==
  IF n = 0 THEN <<0, 1>>
  ELSE LET a == Abs(n)
       IN  IF a >= HalfP * d
           THEN LET t == ScaleDown(a, d, 1)
                IN  <<Sgn(n) * RoundDiv(a, d * t) * t, 1>>
           ELSE LET t == ScaleUp(a, d, 1)
                IN  Norm(Sgn(n) * RoundDiv(a * t, d), t)

FromInt(i) == RN(i, 1)

FNeg(x) == <<-x[1], x[2]>>

FAdd(x, y) ==
  IF IsNaN(x) \/ IsNaN(y) THEN NaN
  ELSE IF IsInf(x) THEN (IF IsInf(y) /\ y # x THEN NaN ELSE x)
  ELSE IF IsInf(y) THEN y
  ELSE RN(x[1] * y[2] + y[1] * x[2], x[2] * y[2])

FSub(x, y) == FAdd(x, FNeg(y))

FMul(x, y) ==
  IF IsNaN(x) \/ IsNaN(y) THEN NaN
  ELSE IF IsInf(x) \/ IsInf(y)
       THEN (IF x[1] = 0 \/ y[1] = 0 THEN NaN
             ELSE <<Sgn(x[1]) * Sgn(y[1]), 0>>)
  ELSE RN(x[1] * y[1], x[2] * y[2])

FDiv(x, y) ==
  IF IsNaN(x) \/ IsNaN(y) THEN NaN
  ELSE IF IsInf(x)
       THEN (IF IsInf(y) THEN NaN
             ELSE <<Sgn(x[1]) * (IF y[1] < 0 THEN -1 ELSE 1), 0>>)
  ELSE IF IsInf(y) THEN <<0, 1>>
  ELSE IF y[1] = 0 THEN (IF x[1] = 0 THEN NaN ELSE <<Sgn(x[1]), 0>>)
  ELSE RN(x[1] * y[2] * Sgn(y[1]), x[2] * Abs(y[1]))

\* x < y on doubles: false when either is NaN
FLess(x, y) ==
  IF IsNaN(x) \/ IsNaN(y) THEN FALSE
  ELSE IF IsInf(x) THEN x = NInf /\ y # NInf
  ELSE IF IsInf(y) THEN y = Inf
  ELSE x[1] * y[2] < y[1] * x[2]


-----------------------------------------------------------------------------
(* The scene: the Layers and Objects main() creates.  The image files are  *)
(* not part of the repository, so a Layer's pixel size is drawn at Init.   *)

LayerIds == {"play", "clouds"}
ObjIds == {"o1", "o2"}

\* pixel sizes <<w, h>> a loaded layer image may have
DimSet == {<<1000, 1000>>, <<640, 480>>}

\* the sizes of play.png and clouds.png: two different sizes, any order
SceneDims == {d \in DimSet \X DimSet : d[1] # d[2]}

\* SDL_SetVideoMode(640, 480, ...)
ScreenW == 640
ScreenH == 480

\* Position(t_x, t_y) of two int literals
Pos(x, y) == <<FromInt(x), FromInt(y)>>

\* the positions Layer::addObject is called with in SpecAPI
PosSet == {Pos(100, 10), Pos(10, 400)}

\* the viewpoints Room::render is called with in SpecAPI
ViewSet == {Pos(100, 100), Pos(100, 250)}

\* the offset Layer::render is called with directly in SpecAPI
OffsetSet == {Pos(0, 0)}

\* bounds of SpecAPI: calls made, entries of Room::m_layers
MaxCalls == 4
MaxLayers == 2

VARIABLES
  m_layers,      \* Room::m_layers: the layers in insertion order
  layer,         \* per Layer: m_dirty, m_objects, m_rendered_surface, w, h
  screen,        \* the target Surface: layers blitted since clear(), flips
  rlog,          \* the calls the latest Room::render made, in order
  last,          \* the latest public call and its outcome
  ncalls,        \* public calls of Room and Layer made so far
  added,         \* per Layer: the (Position, Object) pairs addObject got
  addsPending,   \* per Layer: addObject was called since its last render
  recomposites,  \* per Layer: times render ran its recomposition loop
  firstRenders   \* per Layer: renders that were the first after an addObject

roomVars == <<m_layers, layer, screen, rlog, last, ncalls, added,
              addsPending, recomposites, firstRenders>>

\* Position::operator<
PosLess(a, b) ==
  FLess(a[2], b[2]) \/ (a[2] = b[2] /\ FLess(a[1], b[1]))

\* boost::shared_ptr<Object>::operator<: the order of the addresses held.
\* The Objects are named in the order of their addresses; SpecAPI's calls
\* range over every Object, so either order of two allocations is covered.
PtrLess(a, b) == (a = "o1" /\ b = "o2")

\* PairLess as it would be if the set were keyed on the Position alone
PairLessByPosition(e, f) == PosLess(e[1], f[1])

\* std::pair<Position, shared_ptr<Object>>::operator<, the set's comparator
PairLess(e, f) ==
  PosLess(e[1], f[1]) \/ (~PosLess(f[1], e[1]) /\ PtrLess(e[2], f[2]))

\* std::set<...>::insert on the set kept as its in-order sequence: nothing
\* is inserted when an equivalent element (neither less than the other) is
\* there, else the element goes before the first greater one
SetInsert(s, e) ==
  IF \E i \in 1..Len(s) : ~PairLess(s[i], e) /\ ~PairLess(e, s[i]) THEN s
  ELSE LET k == Cardinality({i \in 1..Len(s) : PairLess(s[i], e)})
       IN  SubSeq(s, 1, k) \o <<e>> \o SubSeq(s, k + 1, Len(s))

\* Layer::Layer
NewLayer(dim) ==
  [m_dirty |-> FALSE, m_objects |-> <<>>, m_rendered_surface |-> <<>>,
   w |-> dim[1], h |-> dim[2]]

\* Layer::addObject
LayerAddObject(L, p, o) ==
  [L EXCEPT !.m_objects = SetInsert(@, <<p, o>>), !.m_dirty = TRUE]

\* LayerRendered as it would be if m_dirty were never cleared
LayerRenderedKeepsDirty(L) ==
  IF L.m_dirty
  THEN [L EXCEPT !.m_rendered_surface = @ \o L.m_objects]
  ELSE L

\* Layer::render, the part that changes the Layer: when dirty, every placed
\* Object is drawn onto m_rendered_surface in set order and the flag cleared
LayerRendered(L) ==
  IF L.m_dirty
  THEN [L EXCEPT !.m_rendered_surface = @ \o L.m_objects, !.m_dirty = FALSE]
  ELSE L

\* the world Layer::render acts on: the layers, the target, and the counts
World == [layer |-> layer, screen |-> screen, rlog |-> rlog,
          addsPending |-> addsPending, recomposites |-> recomposites,
          firstRenders |-> firstRenders]

\* Layer::render(t_surface, t_offset) of layer l
LayerRender(W, l, off) ==
  [layer |-> [W.layer EXCEPT ![l] = LayerRendered(@)],
   screen |-> [W.screen EXCEPT !.blits = Append(@, l)],
   rlog |-> Append(W.rlog, <<"Layer.render", l, off>>),
   addsPending |-> [W.addsPending EXCEPT ![l] = FALSE],
   recomposites |-> [W.recomposites EXCEPT
                       ![l] = IF W.layer[l].m_dirty THEN @ + 1 ELSE @],
   firstRenders |-> [W.firstRenders EXCEPT
                       ![l] = IF W.addsPending[l] THEN @ + 1 ELSE @]]

\* ParallaxOffset as it would be if every layer used the center's extent
ParallaxOffsetOfCenter(ldim, cdim, v, sdim) ==
  LET xpercent == FDiv(v[1], FromInt(cdim[1]))
      ypercent == FDiv(v[2], FromInt(cdim[2]))
      xcenter == FMul(FromInt(cdim[1]), xpercent)
      ycenter == FMul(FromInt(cdim[2]), ypercent)
  IN  <<FAdd(FNeg(xcenter), FDiv(FromInt(sdim[1]), FromInt(2))),
        FAdd(FNeg(ycenter), FDiv(FromInt(sdim[2]), FromInt(2)))>>

\* Room::render lines 268-282: the offset of a layer of size ldim when the
\* center layer has size cdim, the viewpoint is v and the target sdim
ParallaxOffset(ldim, cdim, v, sdim) ==
  LET xpercent == FDiv(v[1], FromInt(cdim[1]))
      ypercent == FDiv(v[2], FromInt(cdim[2]))
      renderwidth == FromInt(sdim[1])
      renderheight == FromInt(sdim[2])
      xcenter == FMul(FromInt(ldim[1]), xpercent)
      ycenter == FMul(FromInt(ldim[2]), ypercent)
  IN  <<FAdd(FNeg(xcenter), FDiv(renderwidth, FromInt(2))),
        FAdd(FNeg(ycenter), FDiv(renderheight, FromInt(2)))>>

Dim(L) == <<L.w, L.h>>

\* RenderLayers as it would be if the loop ran from the last layer down
RECURSIVE RenderLayersReversed(_, _, _, _)
RenderLayersReversed(W, i, cdim, v) ==
  IF i > Len(m_layers) THEN W
  ELSE LET l == m_layers[Len(m_layers) + 1 - i]
           off == ParallaxOffset(Dim(W.layer[l]), cdim, v, <<ScreenW, ScreenH>>)
       IN  RenderLayersReversed(LayerRender(W, l, off), i + 1, cdim, v)

\* Room::render, the loop over m_layers from index i on
RECURSIVE RenderLayers(_, _, _, _)
RenderLayers(W, i, cdim, v) ==
  IF i > Len(m_layers) THEN W
  ELSE LET l == m_layers[i]
           off == ParallaxOffset(Dim(W.layer[l]), cdim, v, <<ScreenW, ScreenH>>)
       IN  RenderLayers(LayerRender(W, l, off), i + 1, cdim, v)

\* Surface::flip
Flip(W) ==
  [W EXCEPT !.screen.flips = @ + 1, !.rlog = Append(@, <<"flip">>)]

\* Found as it would be if the result of std::find were not tested
FoundAlways(c) == TRUE

\* std::find(m_layers.begin(), m_layers.end(), t_center_layer) # end
Found(c) == \E i \in 1..Len(m_layers) : m_layers[i] = c

\* Room::render(t_surface, c, v)
RoomRender(c, v) ==
  /\ ncalls' = ncalls + 1
  /\ UNCHANGED <<m_layers, added>>
  /\ IF ~Found(c)
     THEN /\ last' = [op |-> "Room.render", who |-> c, pos |-> v,
                      result |-> "not_found"]
          /\ rlog' = <<>>
          /\ UNCHANGED <<layer, screen, addsPending, recomposites,
                         firstRenders>>
     ELSE LET W == Flip(RenderLayers([World EXCEPT !.rlog = <<>>], 1,
                                     Dim(layer[c]), v))
          IN  /\ last' = [op |-> "Room.render", who |-> c, pos |-> v,
                          result |-> "ok"]
              /\ layer' = W.layer
              /\ screen' = W.screen
              /\ rlog' = W.rlog
              /\ addsPending' = W.addsPending
              /\ recomposites' = W.recomposites
              /\ firstRenders' = W.firstRenders


-----------------------------------------------------------------------------
(* main(): State, the SDL event queue, and the loop.                       *)

\* bounds of Spec: loop iterations started, events waiting in the queue
MaxIter == 3
MaxQueue == 2

Arrows == {"LEFT", "RIGHT", "UP", "DOWN"}
Keys == Arrows \cup {"a"}

\* the keys the user presses and releases while the loop of Spec runs
LoopKeys == {"LEFT"}

\* an SDL_Event: a key event carries the key and SDL_PRESSED/SDL_RELEASED
KeyEvent(type, sym) ==
  [type |-> type, sym |-> sym,
   state |-> IF type = "KEYDOWN" THEN "PRESSED" ELSE "RELEASED"]
PlainEvent(type) == [type |-> type, sym |-> "-", state |-> "-"]

VARIABLES
  pc,            \* the statement of main's loop that runs next
  cont,          \* main's cont
  state,         \* main's State
  queue,         \* SDL's event queue, oldest first
  iter,          \* loop iterations started
  trace,         \* the steps of the current iteration, in order
  handled,       \* the events handleSDLEvents took in the current iteration
  quitSeen,      \* a quit event was polled
  keyState,      \* per arrow key: the latest key event handled was a press
  before,        \* State as updateState found it
  sinceTick,     \* renders completed since the latest tick was handled
  tickSeen       \* <<frame_count, iter>> of every tick handled, in order

mainVars == <<pc, cont, state, queue, iter, trace, handled, quitSeen,
              keyState, before, sinceTick, tickSeen>>

vars == <<roomVars, mainVars>>

\* State::State
NewState ==
  [p |-> Pos(100, 100),
   moving_left |-> FALSE, moving_right |-> FALSE,
   moving_up |-> FALSE, moving_down |-> FALSE,
   s_per_frame |-> RN(3, 100),
   frame_count |-> 0]

\* handleKey
HandleKey(st, key) ==
  LET keypressed == key.state = "PRESSED"
  IN  CASE key.sym = "LEFT" -> [st EXCEPT !.moving_left = keypressed]
        [] key.sym = "RIGHT" -> [st EXCEPT !.moving_right = keypressed]
        [] key.sym = "UP" -> [st EXCEPT !.moving_up = keypressed]
        [] key.sym = "DOWN" -> [st EXCEPT !.moving_down = keypressed]
        [] OTHER -> st

\* UpdateStateOf as it would be if moving_right subtracted like moving_left
UpdateStateOfBothSubtract(st) ==
  LET d == FMul(FromInt(50), st.s_per_frame)
      x1 == IF st.moving_left THEN FSub(st.p[1], d) ELSE st.p[1]
      x2 == IF st.moving_right THEN FSub(x1, d) ELSE x1
      y1 == IF st.moving_up THEN FSub(st.p[2], d) ELSE st.p[2]
      y2 == IF st.moving_down THEN FAdd(y1, d) ELSE y1
  IN  [st EXCEPT !.p = <<x2, y2>>]

\* updateState
UpdateStateOf(st) ==
  LET d == FMul(FromInt(50), st.s_per_frame)
      x1 == IF st.moving_left THEN FSub(st.p[1], d) ELSE st.p[1]
      x2 == IF st.moving_right THEN FAdd(x1, d) ELSE x1
      y1 == IF st.moving_up THEN FSub(st.p[2], d) ELSE st.p[2]
      y2 == IF st.moving_down THEN FAdd(y1, d) ELSE y1
  IN  [st EXCEPT !.p = <<x2, y2>>]

\* HandleTick as it would be if the denominator counted the frame under way
HandleTickPlusOne(st) ==
  [st EXCEPT
     !.s_per_frame = FDiv(FromInt(1),
                          FMul(FromInt(st.frame_count + 1), FromInt(10))),
     !.frame_count = 0]

\* HandleTick as it would be if frame_count were not reset
HandleTickNoReset(st) ==
  [st EXCEPT
     !.s_per_frame = FDiv(FromInt(1),
                          FMul(FromInt(st.frame_count), FromInt(10)))]

\* handleSDLEvents, case SDL_USEREVENT
HandleTick(st) ==
  [st EXCEPT
     !.s_per_frame = FDiv(FromInt(1),
                          FMul(FromInt(st.frame_count), FromInt(10))),
     !.frame_count = 0]

\* Polled as it would be if SDL_PollEvent were called until the queue is empty
PolledAll(q) == q

\* the events handleSDLEvents takes off the queue: one SDL_PollEvent call
Polled(q) == IF q = <<>> THEN <<>> ELSE <<Head(q)>>

\* AfterEvents as it would be if the quit did not leave the try block
AfterEventsNoSkip(es) == "update"

\* main's try block: a Quit_Exception thrown by handleSDLEvents skips
\* updateState
AfterEvents(es) ==
  IF es # <<>> /\ Head(es).type = "QUIT" THEN "clear" ELSE "update"

\* SDL_PushEvent by the user's input or the window manager
PushEvent(e) ==
  /\ pc # "done"
  /\ Len(queue) < MaxQueue
  /\ queue' = Append(queue, e)
  /\ UNCHANGED <<roomVars, pc, cont, state, iter, trace, handled, quitSeen,
                 keyState, before, sinceTick, tickSeen>>

UserKey ==
  \E t \in {"KEYDOWN", "KEYUP"}, k \in LoopKeys : PushEvent(KeyEvent(t, k))
UserQuit == PushEvent(PlainEvent("QUIT"))
OtherEvent == PushEvent(PlainEvent("MOUSEMOTION"))

\* timerevent, run by SDL's timer thread every 100 ms
TimerEvent == PushEvent(PlainEvent("USEREVENT"))

\* while (cont)
LoopTest ==
  /\ pc = "test"
  /\ iter < MaxIter \/ ~cont
  /\ IF cont
     THEN /\ pc' = "poll"
          /\ iter' = iter + 1
          /\ trace' = <<>>
          /\ handled' = <<>>
     ELSE /\ pc' = "done"
          /\ UNCHANGED <<iter, trace, handled>>
  /\ UNCHANGED <<roomVars, cont, state, queue, quitSeen, keyState, before,
                 sinceTick, tickSeen>>

\* handleSDLEvents(state), and the catch of Quit_Exception in main
HandleSDLEvents ==
  /\ pc = "poll"
  /\ LET es == Polled(queue)
         e == Head(es)
     IN  /\ queue' = SubSeq(queue, Len(es) + 1, Len(queue))
         /\ handled' = handled \o es
         /\ trace' = Append(trace, "poll")
         /\ pc' = AfterEvents(es)
         /\ IF es = <<>>
            THEN UNCHANGED <<state, cont, quitSeen, keyState, tickSeen,
                            sinceTick>>
            ELSE CASE e.type \in {"KEYDOWN", "KEYUP"} ->
                        /\ state' = HandleKey(state, e)
                        /\ keyState' = IF e.sym \in Arrows
                                       THEN [keyState EXCEPT
                                               ![e.sym] = e.type = "KEYDOWN"]
                                       ELSE keyState
                        /\ UNCHANGED <<cont, quitSeen, tickSeen, sinceTick>>
                   [] e.type = "QUIT" ->
                        /\ cont' = FALSE
                        /\ quitSeen' = TRUE
                        /\ UNCHANGED <<state, keyState, tickSeen, sinceTick>>
                   [] e.type = "USEREVENT" ->
                        /\ state' = HandleTick(state)
                        /\ tickSeen' = Append(tickSeen,
                                             <<state.frame_count, iter>>)
                        /\ sinceTick' = 0
                        /\ UNCHANGED <<cont, quitSeen, keyState>>
                   [] OTHER ->
                        UNCHANGED <<state, cont, quitSeen, keyState,
                                    tickSeen, sinceTick>>
  /\ UNCHANGED <<roomVars, iter, before>>

\* updateState(state)
UpdateState ==
  /\ pc = "update"
  /\ state' = UpdateStateOf(state)
  /\ trace' = Append(trace, "update")
  /\ pc' = "clear"
  /\ UNCHANGED <<roomVars, cont, queue, iter, handled, quitSeen, keyState,
                 before, sinceTick, tickSeen>>

\* s.getSurface().clear()
Clear ==
  /\ pc = "clear"
  /\ screen' = [screen EXCEPT !.blits = <<>>]
  /\ trace' = Append(trace, "clear")
  /\ pc' = "render"
  /\ UNCHANGED <<m_layers, layer, rlog, last, ncalls, added,
                 addsPending, recomposites, firstRenders>>
  /\ UNCHANGED <<cont, state, queue, iter, handled, quitSeen, keyState,
                 before, sinceTick, tickSeen>>

\* r1.render(s.getSurface(), play, state.p)
Render ==
  /\ pc = "render"
  /\ RoomRender("play", state.p)
  /\ trace' = Append(trace, "render")
  /\ sinceTick' = sinceTick + 1
  /\ pc' = "count"
  /\ UNCHANGED <<cont, state, queue, iter, handled, quitSeen, keyState,
                 before, tickSeen>>

\* ++state.frame_count
CountFrame ==
  /\ pc = "count"
  /\ state' = [state EXCEPT !.frame_count = @ + 1]
  /\ pc' = "test"
  /\ UNCHANGED <<roomVars, cont, queue, iter, trace, handled, quitSeen,
                 keyState, before, sinceTick, tickSeen>>

RECURSIVE AddAll(_, _, _)
AddAll(L, ps, o) ==
  IF ps = <<>> THEN L ELSE AddAll(LayerAddObject(L, Head(ps), o), Tail(ps), o)

PlayPositions == <<Pos(45, 100), Pos(60, 300), Pos(600, 800), Pos(200, 800)>>
CloudPositions == <<Pos(10, 10), Pos(100, 10), Pos(300, 10), Pos(10, 400)>>

Range(s) == {s[i] : i \in 1..Len(s)}

InitMainVars ==
  /\ pc = "test"
  /\ cont = TRUE
  /\ state = NewState
  /\ queue = <<>>
  /\ iter = 0
  /\ trace = <<>>
  /\ handled = <<>>
  /\ quitSeen = FALSE
  /\ keyState = [k \in Arrows |-> FALSE]
  /\ before = NewState
  /\ sinceTick = 0
  /\ tickSeen = <<>>

InitRoomCommon ==
  /\ screen = [blits |-> <<>>, flips |-> 0]
  /\ rlog = <<>>
  /\ last = [op |-> "none", who |-> "-", pos |-> Pos(0, 0), result |-> "-"]
  /\ ncalls = 0
  /\ recomposites = [l \in LayerIds |-> 0]
  /\ firstRenders = [l \in LayerIds |-> 0]

\* main() up to SDL_AddTimer: the scene is built, nothing is rendered yet
Init ==
  /\ InitMainVars
  /\ InitRoomCommon
  /\ m_layers = <<"play", "clouds">>
  /\ \E d \in SceneDims :
       layer = [l \in LayerIds |->
                  IF l = "play" THEN AddAll(NewLayer(d[1]), PlayPositions, "o2")
                  ELSE AddAll(NewLayer(d[2]), CloudPositions, "o1")]
  /\ added = [l \in LayerIds |->
                IF l = "play" THEN {<<q, "o2">> : q \in Range(PlayPositions)}
                ELSE {<<q, "o1">> : q \in Range(CloudPositions)}]
  /\ addsPending = [l \in LayerIds |-> TRUE]

Next ==
  \/ UserKey
  \/ UserQuit
  \/ OtherEvent
  \/ TimerEvent
  \/ LoopTest
  \/ HandleSDLEvents
  \/ UpdateState
  \/ Clear
  \/ Render
  \/ CountFrame

Spec == Init /\ [][Next]_vars

-----------------------------------------------------------------------------
(* Room and Layer under any sequence of calls of their public methods.     *)

\* Room::addLayer
AddLayer ==
  \E l \in LayerIds :
    /\ ncalls < MaxCalls
    /\ Len(m_layers) < MaxLayers
    /\ m_layers' = Append(m_layers, l)
    /\ ncalls' = ncalls + 1
    /\ last' = [op |-> "Room.addLayer", who |-> l, pos |-> Pos(0, 0),
                result |-> "ok"]
    /\ UNCHANGED <<layer, screen, rlog, added, addsPending,
                   recomposites, firstRenders, mainVars>>

\* Layer::addObject
AddObject ==
  \E l \in LayerIds, q \in PosSet, o \in ObjIds :
    /\ ncalls < MaxCalls
    /\ layer' = [layer EXCEPT ![l] = LayerAddObject(@, q, o)]
    /\ added' = [added EXCEPT ![l] = @ \cup {<<q, o>>}]
    /\ addsPending' = [addsPending EXCEPT ![l] = TRUE]
    /\ ncalls' = ncalls + 1
    /\ last' = [op |-> "Layer.addObject", who |-> l, pos |-> q,
                result |-> "ok"]
    /\ UNCHANGED <<m_layers, screen, rlog, recomposites, firstRenders,
                   mainVars>>

\* Layer::render called on a Layer directly
RenderLayer ==
  \E l \in LayerIds, off \in OffsetSet :
    /\ ncalls < MaxCalls
    /\ LET W == LayerRender(World, l, off)
       IN  /\ layer' = W.layer
           /\ screen' = W.screen
           /\ addsPending' = W.addsPending
           /\ recomposites' = W.recomposites
           /\ firstRenders' = W.firstRenders
    /\ ncalls' = ncalls + 1
    /\ last' = [op |-> "Layer.render", who |-> l, pos |-> off,
                result |-> "ok"]
    /\ UNCHANGED <<m_layers, rlog, added, mainVars>>

\* Room::render called with any Layer as center
RenderRoom ==
  \E c \in LayerIds, v \in ViewSet :
    /\ ncalls < MaxCalls
    /\ RoomRender(c, v)
    /\ UNCHANGED mainVars

InitAPI ==
  /\ InitMainVars
  /\ InitRoomCommon
  /\ m_layers = <<>>
  /\ \E d \in SceneDims :
       layer = [l \in LayerIds |->
                  IF l = "play" THEN NewLayer(d[1]) ELSE NewLayer(d[2])]
  /\ added = [l \in LayerIds |-> {}]
  /\ addsPending = [l \in LayerIds |-> FALSE]

NextAPI == AddLayer \/ AddObject \/ RenderLayer \/ RenderRoom

SpecAPI == InitAPI /\ [][NextAPI]_vars

-----------------------------------------------------------------------------
(* State under any sequence of handleKey and updateState calls, from a     *)
(* State the loop can have reached.                                        *)

\* bound of SpecState: the largest frame_count a handled tick has seen
MaxTickFrames == 4

\* viewpoints of a run: the start, and the one after LEFT was held for one
\* frame at 1.5 per frame and four frames at 5 per frame
StartViews == {Pos(100, 100), <<RN(157, 2), FromInt(100)>>}

\* s_per_frame of a run: as constructed, or as set by a tick
SpfSet ==
  {NewState.s_per_frame} \cup
  {HandleTick([NewState EXCEPT !.frame_count = n]).s_per_frame :
     n \in 0..MaxTickFrames}

InitState ==
  /\ pc = "update"
  /\ cont = TRUE
  /\ \E v \in StartViews, spf \in SpfSet :
       /\ state = [NewState EXCEPT !.p = v, !.s_per_frame = spf]
       /\ before = state
  /\ queue = <<>>
  /\ iter = 1
  /\ trace = <<>>
  /\ handled = <<>>
  /\ quitSeen = FALSE
  /\ keyState = [k \in Arrows |-> FALSE]
  /\ sinceTick = 0
  /\ tickSeen = <<>>
  /\ InitRoomCommon
  /\ m_layers = <<>>
  /\ layer = [l \in LayerIds |-> NewLayer(<<ScreenW, ScreenH>>)]
  /\ added = [l \in LayerIds |-> {}]
  /\ addsPending = [l \in LayerIds |-> FALSE]

CallHandleKey ==
  \E t \in {"KEYDOWN", "KEYUP"}, k \in Keys :
    /\ ncalls < MaxCalls
    /\ state' = HandleKey(state, KeyEvent(t, k))
    /\ keyState' = IF k \in Arrows
                   THEN [keyState EXCEPT ![k] = t = "KEYDOWN"]
                   ELSE keyState
    /\ ncalls' = ncalls + 1
    /\ last' = [op |-> "handleKey", who |-> k, pos |-> Pos(0, 0),
                result |-> "ok"]
    /\ UNCHANGED <<m_layers, layer, screen, rlog, added, addsPending,
                   recomposites, firstRenders>>
    /\ UNCHANGED <<pc, cont, queue, iter, trace, handled, quitSeen, before,
                   sinceTick, tickSeen>>

CallUpdateState ==
  /\ ncalls < MaxCalls
  /\ before' = state
  /\ state' = UpdateStateOf(state)
  /\ ncalls' = ncalls + 1
  /\ last' = [op |-> "updateState", who |-> "-", pos |-> Pos(0, 0),
              result |-> "ok"]
  /\ UNCHANGED <<m_layers, layer, screen, rlog, added, addsPending,
                 recomposites, firstRenders>>
  /\ UNCHANGED <<pc, cont, queue, iter, trace, handled, quitSeen, keyState,
                 sinceTick, tickSeen>>

NextState == CallHandleKey \/ CallUpdateState

SpecState == InitState /\ [][NextState]_vars


-----------------------------------------------------------------------------
(* The claims.                                                             *)

OkRoomRender == last.op = "Room.render" /\ last.result = "ok"

\* 2^MantBits * |o - E| <= 3|T| + |E|, where o is the offset passed, T the
\* real number lext * v / cext and E the real number ssize/2 - T: the error
\* three roundings (the division, the product, the sum) can leave
OffsetOk(o, lext, cext, v, ssize) ==
  IF ~IsFin(v) THEN TRUE
  ELSE /\ IsFin(o)
       /\ LET D == 2 * v[2] * cext
              Tn == 2 * lext * v[1]
              En == ssize * v[2] * cext - Tn
          IN  TwoP * Abs(o[1] * D - En * o[2]) <= (3 * Abs(Tn) + Abs(En)) * o[2]

ClaimedOffset(lext, cext, v, ssize) ==
  FAdd(FNeg(FDiv(FMul(FromInt(lext), v), FromInt(cext))),
       FDiv(FromInt(ssize), FromInt(2)))

C2_NotFoundDrawsNothing ==
  [][(ncalls' = ncalls + 1 /\ last'.op = "Room.render"
        /\ last'.who \notin Range(m_layers))
      => (/\ last'.result = "not_found"
          /\ rlog' = <<>>
          /\ layer' = layer
          /\ screen' = screen
          /\ recomposites' = recomposites)]_vars

\* C2, witness: a Room.render that failed with "not found" while a layer of
\* the list was dirty
C2_Witness ==
  /\ last.op = "Room.render" /\ last.result = "not_found"
  /\ \E l \in Range(m_layers) : layer[l].m_dirty

\* C3: a Layer has run its recomposition once for each render that was the
\* first after one or more addObject calls and never otherwise, its dirty flag
\* is set exactly while an addObject has had no render after it, and a clean
\* Layer's composite holds every placed object.
C3_RecompositeOncePerChange ==
  \A l \in LayerIds :
    /\ recomposites[l] = firstRenders[l]
    /\ layer[l].m_dirty = addsPending[l]
    /\ ~layer[l].m_dirty =>
         Range(layer[l].m_objects) \subseteq Range(layer[l].m_rendered_surface)

\* C3, witness: a Layer with objects that was rendered at least twice and
\* has recomposited once
C3_Witness ==
  \E l \in LayerIds :
    /\ layer[l].m_objects # <<>>
    /\ recomposites[l] = 1
    /\ Cardinality({i \in 1..Len(screen.blits) : screen.blits[i] = l}) >= 2

\* C4 as amended: a Layer's placement set holds exactly the (Position,
\* Object) pairs addObject was called with, each once and in the set's
\* order: the same Object at the same Position again changes nothing, and
\* two Objects at the same Position are both kept.
C4_OnePlacementPerPair ==
  \A l \in LayerIds :
    LET s == layer[l].m_objects
    IN  /\ Range(s) = added[l]
        /\ \A i, j \in 1..Len(s) : i < j => PairLess(s[i], s[j])

\* C4, witness: a Layer holding two Objects at the same Position
C4_Witness ==
  \E l \in LayerIds :
    \E i, j \in 1..Len(layer[l].m_objects) :
      /\ layer[l].m_objects[i][1] = layer[l].m_objects[j][1]
      /\ layer[l].m_objects[i][2] # layer[l].m_objects[j][2]

\* C4 as stated: a Layer's placement set holds at most one placement per
\* Position.
C4_Original ==
  \A l \in LayerIds :
    \A i, j \in 1..Len(layer[l].m_objects) :
      layer[l].m_objects[i][1] = layer[l].m_objects[j][1] => i = j

MovingFlags(st) ==
  <<st.moving_left, st.moving_right, st.moving_up, st.moving_down>>

\* the statements of the loop body after the try block, in order
RestOfLoop == <<"clear", "render", "count", "test", "done">>

\* C5: once a quit event is polled, cont is false and the loop is past the
\* try block of that iteration; from then on no event is taken off the
\* queue, the viewpoint, the movement flags and s_per_frame stay as they
\* are, no new iteration starts, and the loop only moves on through the
\* clear, the render and the count of that iteration to its end.
C5_QuitTerminates ==
  /\ [](quitSeen => (~cont /\ pc \in Range(RestOfLoop)))
  /\ [][quitSeen => (/\ handled' = handled
                     /\ Len(queue') >= Len(queue)
                     /\ state'.p = state.p
                     /\ MovingFlags(state') = MovingFlags(state)
                     /\ state'.s_per_frame = state.s_per_frame
                     /\ iter' = iter
                     /\ pc' # pc =>
                          \E i \in 1..4 : /\ pc = RestOfLoop[i]
                                          /\ pc' = RestOfLoop[i + 1])]_vars

\* C5, witness: the loop has ended after a quit polled while LEFT was held,
\* with an event still in the queue
C5_Witness ==
  /\ pc = "done" /\ quitSeen
  /\ state.moving_left
  /\ queue # <<>>

QuitThisIter == handled # <<>> /\ handled[1].type = "QUIT"

IterationEnd == pc \in {"count", "test", "done"} /\ iter >= 1

\* C6 as amended: every iteration takes at most one event off the queue, the
\* oldest, then updates state unless that event was a quit, then clears and
\* renders the Room once, whether or not an event was pending.
C6_IterationShape ==
  /\ [](IterationEnd =>
          /\ Len(handled) <= 1
          /\ trace = IF QuitThisIter THEN <<"poll", "clear", "render">>
                     ELSE <<"poll", "update", "clear", "render">>)
  /\ [][(pc = "poll" /\ pc' # "poll") =>
          IF queue = <<>> THEN handled' = <<>> /\ queue' = <<>>
          ELSE handled' = <<Head(queue)>> /\ queue' = Tail(queue)]_vars

\* C6, witness: an iteration that took one of two pending events, updated
\* and rendered
C6_Witness ==
  /\ pc = "test" /\ iter >= 1
  /\ Len(handled) = 1 /\ queue # <<>>
  /\ trace = <<"poll", "update", "clear", "render">>

\* C6 as stated: every iteration takes at most one event, then updates
\* state, then renders the Room once.
C6_Original ==
  IterationEnd =>
    /\ Len(handled) <= 1
    /\ trace = <<"poll", "update", "clear", "render">>

\* C7: s_per_frame is infinite, the quotient of 1 by a zero denominator,
\* exactly when the latest tick was handled while frame_count was 0; the
\* witness shows such a tick is handled.
C7_TickDividesByZero ==
  (state.s_per_frame = Inf) <=>
    (tickSeen # <<>> /\ tickSeen[Len(tickSeen)][1] = 0)

\* C7, witness: a tick handled while frame_count was 0
C7_Witness ==
  /\ tickSeen # <<>> /\ tickSeen[Len(tickSeen)][1] = 0
  /\ FMul(FromInt(tickSeen[Len(tickSeen)][1]), FromInt(10)) = <<0, 1>>
  /\ state.s_per_frame = Inf

\* C10: frame_count is the number of renders completed since the latest tick
\* was handled (one less between a render and the increment after it), it is
\* at least 1 at every poll after the first iteration, and a tick is handled
\* with frame_count 0 only in the first iteration.
C10_FrameCount ==
  /\ state.frame_count = IF pc = "count" THEN sinceTick - 1 ELSE sinceTick
  /\ (pc = "poll" /\ iter > 1) => state.frame_count >= 1
  /\ \A i \in 1..Len(tickSeen) : tickSeen[i][1] = 0 => tickSeen[i][2] = 1

\* C10, witness: a poll after a tick that was handled in a later iteration
\* than the first, and a render since
C10_Witness ==
  /\ pc = "poll"
  /\ tickSeen # <<>> /\ tickSeen[Len(tickSeen)][2] > 1
  /\ state.frame_count = 1

\* the flags are what the latest key event of each arrow key made them
FlagsFollowKeys ==
  MovingFlags(state) =
    <<keyState["LEFT"], keyState["RIGHT"], keyState["UP"], keyState["DOWN"]>>

\* one coordinate after updateState: x0 before, x1 after, neg and pos the
\* flags of its two keys, d the step 50 * s_per_frame
AxisMoved(x0, x1, neg, pos, d) ==
  IF ~neg /\ ~pos THEN x1 = x0
  ELSE IF neg /\ ~pos THEN x1 = FSub(x0, d)
  ELSE IF pos /\ ~neg THEN x1 = FAdd(x0, d)
  ELSE IF ~IsFin(d) THEN x1 = NaN
  ELSE IF ~IsFin(x0) THEN x1 = x0
  ELSE LET y == FSub(x0, d)
       IN  /\ IsFin(x1)
           /\ TwoP * Abs(x1[1] * x0[2] - x0[1] * x1[2]) * y[2]
                <= (Abs(x1[1]) * y[2] + Abs(y[1]) * x1[2]) * x0[2]

Shifted(x, k, d) == IF k = 0 THEN x ELSE FAdd(x, FMul(FromInt(k), d))

Bit(b) == IF b THEN 1 ELSE 0

=============================================================================
